---- MODULE Spec2Model ----
(***************************************************************************)
(* The invite-registration pager of the login workflow                     *)
(* (login-workflow/src/screens/InviteRegistrationPager.tsx) and the        *)
(* AccountDetails sub-screen it embeds, as a state machine: the component's*)
(* local state, the shared registration store it reads, the requests in    *)
(* flight, and one action per user event, effect or request completion.    *)
(* Page indices are the source's (0-based); the page list is a TLA+        *)
(* sequence, so RegistrationPages[currentPage] of the source is            *)
(* RegistrationPages[currentPage + 1] here.                                *)
(***************************************************************************)
EXTENDS Integers, Sequences, FiniteSets, TLC

\* ------------------------------------------------------------- bounds
\* Most custom pages the injected forms add to the pager.
MaxCustomPages == 1
\* Largest |delta| of a direct advancePage call.
MaxDelta == 2
\* Registration requests that may be outstanding at once.
MaxRegInFlight == 2
\* Cap of the count of validateCode calls of a mount.
MaxValCalls == 2
\* Longest injected list the page list is built from on its own.
MaxInjected == 3
\* Custom pages of the pager whose registration request is built on its own.
MaxRequestPages == 2
\* loadEULA requests made by one pager.
MaxEulaFetches == 3

VARIABLES
    customDetails,          \* injectedUIContext.customAccountDetails
    mounted,                \* the screen component is mounted
    route,                  \* the navigator's current screen
    routeParams,            \* route.params of the current mount
    hasAcknowledgedError,
    eulaAccepted,
    password,
    firstNameInput,         \* AccountDetails sub-screen state
    lastNameInput,          \* AccountDetails sub-screen state
    accountDetails,
    customAccountDetails,
    currentPage,
    accountAlreadyExists,
    registrationTransit,    \* registrationState.inviteRegistration.registrationTransit
    validationTransit,      \* registrationState.inviteRegistration.validationTransit
    valInFlight,            \* validation requests awaiting the service
    regInFlight,            \* registration requests awaiting the service
    valCalls,               \* validateCode calls made by the current mount
    valRequest,             \* the arguments of the last validation request made
    reported,               \* the service told this mount the account exists
    storeAtMount,           \* the validation transit the mount effects found
    eulaContent,            \* the cached EULA text
    eulaInFlight,           \* loadEULA requests awaiting the service
    loadEULACalls,          \* loadEULA requests made so far
    last                    \* the last operation and the state it started from

vars == <<customDetails, mounted, route, routeParams, hasAcknowledgedError,
          eulaAccepted, password, firstNameInput, lastNameInput, accountDetails,
          customAccountDetails, currentPage, accountAlreadyExists,
          registrationTransit, validationTransit, valInFlight, regInFlight,
          valCalls, valRequest, reported, storeAtMount, eulaContent, eulaInFlight,
          loadEULACalls, last>>

eula == <<eulaContent, eulaInFlight, loadEULACalls>>

local == <<hasAcknowledgedError, eulaAccepted, password, firstNameInput, lastNameInput,
           accountDetails, customAccountDetails, currentPage, accountAlreadyExists>>

form == <<eulaAccepted, password, firstNameInput, lastNameInput, accountDetails,
          customAccountDetails>>

\* ------------------------------------------------------------- values
\* A string-typed value that is absent (undefined / null in the source).
Undefined == "<undefined>"
Null == "<null>"
\* A record-typed value that is null is the empty sequence; a present one is <<r>>.
null == <<>>
Some(r) == <<r>>

\* route.params: the code may be missing or empty, the email is optional.
RouteParams ==
    {[code |-> Undefined, email |-> Undefined], [code |-> "", email |-> Undefined],
     [code |-> "ABC", email |-> Undefined], [code |-> "ABC", email |-> "a@b.c"]}
Passwords == {"", "pw"}
Names == {"", "A"}
\* What a custom form reports: an object of detail fields.
CustomValues == {[company |-> "x"]}
\* What a custom form with a field for the first name reports while it is empty.
CustomNameValues == {[firstName |-> ""]}
ErrorMessages == {"E"}
\* The texts loadEULA resolves with.
EulaTexts == {"", "EULA"}

\* The injected lists the pager is run with. A slot holds a form component or null:
\* no list, and lists whose first form is followed by a null and by n more forms.
CustomDetailLists ==
    {<<>>} \cup {<<"form", "null">> \o [i \in 1..n |-> "form"] : n \in 1..MaxCustomPages}

\* Every injected list of up to MaxInjected slots, each slot one of two form
\* components or null.
InjectedLists == UNION {[1..n -> {"formA", "formB", "null"}] : n \in 0..MaxInjected}

\* Every object a custom form can report over two fields, one of them a field of the
\* core account details, and every record of custom details over the custom pages.
RequestKeys == {"firstName", "company"}
RequestTexts == {"x", "y"}
RequestValues == UNION {[K -> RequestTexts] : K \in SUBSET RequestKeys}
RequestEntries == {[values |-> v, valid |-> TRUE] : v \in RequestValues}
RequestDetails == UNION {[K -> RequestEntries] : K \in SUBSET (1..MaxRequestPages)}

\* ------------------------------------------------------------- store
initialTransitState ==
    [transitInProgress |-> FALSE, transitErrorMessage |-> Null,
     transitSuccess |-> FALSE, transitComplete |-> FALSE]

transitStart ==
    [transitInProgress |-> TRUE, transitErrorMessage |-> Null,
     transitSuccess |-> FALSE, transitComplete |-> FALSE]

transitSucceeded ==
    [transitInProgress |-> FALSE, transitErrorMessage |-> Null,
     transitSuccess |-> TRUE, transitComplete |-> TRUE]

transitFailed(msg) ==
    [transitInProgress |-> FALSE, transitErrorMessage |-> msg,
     transitSuccess |-> FALSE, transitComplete |-> TRUE]

\* ------------------------------------------------------------- derived values
validationCode ==
    IF routeParams.code = Undefined THEN "NoCodeEntered" ELSE routeParams.code
validationEmail == routeParams.email

registrationIsInTransit == registrationTransit.transitInProgress
hasRegistrationTransitError == registrationTransit.transitErrorMessage # Null
registrationSuccess == registrationTransit.transitSuccess

isValidationInTransit == validationTransit.transitInProgress
validationTransitErrorMessage == validationTransit.transitErrorMessage
validationSuccess == validationTransit.transitSuccess
validationComplete == validationTransit.transitComplete

\* customDetails.slice(1).filter(item => item !== null)
RECURSIVE filterNotNull(_)
filterNotNull(s) ==
    IF s = <<>> THEN <<>>
    ELSE IF Head(s) = "null" THEN filterNotNull(Tail(s))
    ELSE <<Head(s)>> \o filterNotNull(Tail(s))

\* customPages without the slice: the first injected form is a page as well.
customPagesWithFirst == filterNotNull(customDetails)

customPages == filterNotNull(IF customDetails = <<>> THEN <<>> ELSE Tail(customDetails))

\* The recorded valid flag of the custom page with key i, false while none is recorded.
recordedValid(i) ==
    IF i \in DOMAIN customAccountDetails THEN customAccountDetails[i].valid ELSE FALSE

\* RegistrationPages with a custom page's canGoForward following its recorded valid flag.
RegistrationPagesGated ==
    <<[name |-> "Eula", pageBody |-> "EulaScreen", canGoForward |-> eulaAccepted,
       canGoBack |-> FALSE],
      [name |-> "CreatePassword", pageBody |-> "CreatePasswordScreen",
       canGoForward |-> Len(password) > 0, canGoBack |-> TRUE],
      [name |-> "AccountDetails", pageBody |-> "AccountDetailsScreen",
       canGoForward |-> accountDetails # null, canGoBack |-> TRUE]>>
    \o [i \in 1..Len(customPages) |->
          [name |-> "CustomPage" \o ToString(i), pageBody |-> customPages[i],
           canGoForward |-> recordedValid(i), canGoBack |-> TRUE]]
    \o <<[name |-> "Complete", pageBody |-> "RegistrationComplete",
          canGoForward |-> TRUE, canGoBack |-> FALSE]>>

\* The page list: each page's name, the component it shows and its two gates.
RegistrationPages ==
    <<[name |-> "Eula", pageBody |-> "EulaScreen", canGoForward |-> eulaAccepted,
       canGoBack |-> FALSE],
      [name |-> "CreatePassword", pageBody |-> "CreatePasswordScreen",
       canGoForward |-> Len(password) > 0, canGoBack |-> TRUE],
      [name |-> "AccountDetails", pageBody |-> "AccountDetailsScreen",
       canGoForward |-> accountDetails # null, canGoBack |-> TRUE]>>
    \o [i \in 1..Len(customPages) |->
          [name |-> "CustomPage" \o ToString(i), pageBody |-> customPages[i],
           canGoForward |-> TRUE, canGoBack |-> TRUE]]
    \o <<[name |-> "Complete", pageBody |-> "RegistrationComplete",
          canGoForward |-> TRUE, canGoBack |-> FALSE]>>

NumPages == Len(RegistrationPages)
isLastStep == currentPage = NumPages - 1
isFirstStep == currentPage = 0
CompletePage == NumPages - 1

canProgress == RegistrationPages[currentPage + 1].canGoForward
canGoBackProgress == RegistrationPages[currentPage + 1].canGoBack

\* The key of the custom page shown at the current index, 0 on a built-in page.
currentCustomKey ==
    IF currentPage >= 3 /\ currentPage < CompletePage THEN currentPage - 2 ELSE 0

\* View with the existing-account flag left out of the wizard's condition.
ViewIgnoringExisting ==
    IF validationSuccess /\ ~isValidationInTransit THEN "wizard"
    ELSE IF accountAlreadyExists THEN "existing"
    ELSE IF ~validationComplete THEN "loading"
    ELSE "error"

\* View with the last branch testing success where the source tests completion.
ViewLoadingUnlessSuccess ==
    IF ~accountAlreadyExists /\ validationSuccess /\ ~isValidationInTransit THEN "wizard"
    ELSE IF accountAlreadyExists THEN "existing"
    ELSE IF ~validationSuccess THEN "loading"
    ELSE "error"

View ==
    IF ~accountAlreadyExists /\ validationSuccess /\ ~isValidationInTransit THEN "wizard"
    ELSE IF accountAlreadyExists THEN "existing"
    ELSE IF ~validationComplete THEN "loading"
    ELSE "error"

\* The render of a page index outside the list throws (RegistrationPages[currentPage]
\* is undefined): the component takes no further event.
crashed == mounted /\ currentPage \notin 0..(NumPages - 1)
shown == mounted /\ route = "Pager" /\ ~crashed

transitName(t) ==
    IF t.transitInProgress THEN "inProgress"
    ELSE IF t.transitSuccess THEN "succeeded"
    ELSE IF t.transitComplete THEN "failed"
    ELSE "idle"

\* The record of an operation no property looks back at.
Other ==
    [op |-> "other", delta |-> 0, page |-> 0, reg |-> 0, val |-> 0, succ |-> FALSE,
     can |-> FALSE, regWas |-> "idle", valWas |-> "idle", exists |-> FALSE,
     request |-> null, back |-> FALSE, consumed |-> FALSE, eulaWas |-> Undefined,
     fetches |-> 0, flying |-> 0, text |-> Undefined]

\* The record of a call advancePage(delta): the page, the outstanding requests,
\* registrationSuccess and canProgress() it started from.
Called(delta) ==
    [Other EXCEPT !.op = "advancePage", !.delta = delta, !.page = currentPage,
                  !.reg = regInFlight, !.val = valInFlight,
                  !.succ = registrationSuccess, !.can = canProgress]

\* The record of a lifecycle step or of a request's success: the page and the store
\* it started from.
Did(op) ==
    [Other EXCEPT !.op = op, !.page = currentPage, !.reg = regInFlight,
                  !.val = valInFlight, !.succ = registrationSuccess,
                  !.regWas = transitName(registrationTransit),
                  !.valWas = transitName(validationTransit)]

\* ------------------------------------------------------------- effects
\* useEffect[validationTransit, ...]: the guard of the call of validateCode.
\* shouldValidate without the test of transitComplete.
shouldValidateIgnoringComplete(vt, code) ==
    ~vt.transitInProgress /\ Len(code) > 0

shouldValidate(vt, code) ==
    ~vt.transitInProgress /\ ~vt.transitComplete /\ Len(code) > 0

\* validateUserRegistrationRequest(validationCode, validationEmail): the arguments
\* validateCode passes for the route parameters p.
\* validationRequest passing the route's code as it is, without the sentinel.
validationRequestRawCode(p) == [code |-> p.code, email |-> p.email]

validationRequest(p) ==
    [code |-> IF p.code = Undefined THEN "NoCodeEntered" ELSE p.code, email |-> p.email]

\* The validation effect run against the store value vt, with the route parameters
\* p, calls validateCode calls made, inflight requests outstanding and req the last
\* request made: when its guard holds validateCode() clears the acknowledgement and
\* the request starts.
effectResult(vt, inflight, p, calls, ack, req) ==
    LET code == IF p.code = Undefined THEN "NoCodeEntered" ELSE p.code IN
    IF shouldValidate(vt, code)
    THEN [transit |-> transitStart, inflight |-> inflight + 1, calls |-> calls + 1,
          ack |-> FALSE, request |-> Some(validationRequest(p))]
    ELSE [transit |-> vt, inflight |-> inflight, calls |-> calls, ack |-> ack,
          request |-> req]

\* The store's validation transit becomes vt with inflight requests left: a mounted
\* pager runs its validation effect on it.
validationEffect(vt, inflight) ==
    LET r == IF mounted /\ ~crashed
             THEN effectResult(vt, inflight, routeParams, valCalls,
                               hasAcknowledgedError, valRequest)
             ELSE [transit |-> vt, inflight |-> inflight, calls |-> valCalls,
                   ack |-> hasAcknowledgedError, request |-> valRequest] IN
    /\ r.calls <= MaxValCalls
    /\ valRequest' = r.request
    /\ validationTransit' = r.transit
    /\ valInFlight' = r.inflight
    /\ valCalls' = r.calls
    /\ hasAcknowledgedError' = r.ack

\* useEffect[registrationSuccess]: the page the effect leaves the pager on when
\* registrationSuccess changes to succ.
\* successEffect without the test of the page.
successEffectFromAnyPage(page, succ) ==
    IF succ THEN CompletePage ELSE page

\* successEffect jumping to the list's length, one past the Complete page.
successEffectPastLast(page, succ) ==
    IF page = NumPages - 2 /\ succ THEN NumPages ELSE page

successEffect(page, succ) ==
    IF page = NumPages - 2 /\ succ THEN CompletePage ELSE page

\* ------------------------------------------------------------- registration
emptyAccountDetailInformation == [firstName |-> "", lastName |-> ""]

\* { ...a, ...b }: the fields of both objects, b's value where both have the field.
spread(a, b) ==
    [k \in DOMAIN a \cup DOMAIN b |-> IF k \in DOMAIN b THEN b[k] ELSE a[k]]

\* The largest of a non-empty set of page keys.
maxKey(keys) == CHOOSE m \in keys : \A n \in keys : n <= m

\* Object.keys(details).forEach(...): the values of the page keys spread one over the
\* other in ascending order of key.
RECURSIVE flatten(_, _)
flatten(details, keys) ==
    IF keys = {} THEN <<>>
    ELSE LET k == maxKey(keys) IN spread(flatten(details, keys \ {k}), details[k].values)

flattenedDetails == flatten(customAccountDetails, DOMAIN customAccountDetails)

\* registrationRequest with the core details spread over the custom ones.
registrationRequestCoreWins ==
    [password |-> password,
     accountDetails |->
         spread(flattenedDetails,
                IF accountDetails = null THEN emptyAccountDetailInformation
                ELSE accountDetails[1]),
     code |-> validationCode, email |-> validationEmail]

\* The arguments attemptRegistration passes to completeRegistration.
registrationRequest ==
    [password |-> password,
     accountDetails |->
         spread(IF accountDetails = null THEN emptyAccountDetailInformation
                ELSE accountDetails[1],
                flattenedDetails),
     code |-> validationCode, email |-> validationEmail]

attemptRegistration ==
    /\ regInFlight < MaxRegInFlight
    /\ hasAcknowledgedError' = FALSE
    /\ registrationTransit' = transitStart
    /\ regInFlight' = regInFlight + 1

\* ------------------------------------------------------------- advancePage
\* advanceBranch with no early return, its first-step test admitting delta = 0.
advanceBranchNoReturn(delta) ==
    IF isFirstStep /\ delta <= 0 THEN "navigate"
    ELSE IF isLastStep /\ delta > 0 THEN "navigate"
    ELSE IF /\ currentPage = NumPages - 2
            /\ ~registrationSuccess
            /\ canProgress
            /\ delta > 0
         THEN "attemptRegistration"
    ELSE "setCurrentPage"

\* advanceBranch with its first-step test matching a single step back only.
advanceBranchFirstStepOne(delta) ==
    IF delta = 0 THEN "return"
    ELSE IF isFirstStep /\ delta = -1 THEN "navigate"
    ELSE IF isLastStep /\ delta > 0 THEN "navigate"
    ELSE IF /\ currentPage = NumPages - 2
            /\ ~registrationSuccess
            /\ canProgress
            /\ delta > 0
         THEN "attemptRegistration"
    ELSE "setCurrentPage"

\* advanceBranch with its last-step test matching a single step forward only.
advanceBranchLastStepOne(delta) ==
    IF delta = 0 THEN "return"
    ELSE IF isFirstStep /\ delta < 0 THEN "navigate"
    ELSE IF isLastStep /\ delta = 1 THEN "navigate"
    ELSE IF /\ currentPage = NumPages - 2
            /\ ~registrationSuccess
            /\ canProgress
            /\ delta > 0
         THEN "attemptRegistration"
    ELSE "setCurrentPage"

\* advanceBranch looking for the registration step on the last page.
advanceBranchRegisterOnLast(delta) ==
    IF delta = 0 THEN "return"
    ELSE IF isFirstStep /\ delta < 0 THEN "navigate"
    ELSE IF isLastStep /\ delta > 0 THEN "navigate"
    ELSE IF /\ currentPage = NumPages - 1
            /\ ~registrationSuccess
            /\ canProgress
            /\ delta > 0
         THEN "attemptRegistration"
    ELSE "setCurrentPage"

\* advanceBranch registering whatever canProgress() answers.
advanceBranchIgnoringGate(delta) ==
    IF delta = 0 THEN "return"
    ELSE IF isFirstStep /\ delta < 0 THEN "navigate"
    ELSE IF isLastStep /\ delta > 0 THEN "navigate"
    ELSE IF /\ currentPage = NumPages - 2
            /\ ~registrationSuccess
            /\ delta > 0
         THEN "attemptRegistration"
    ELSE "setCurrentPage"

\* advanceBranch registering again after registration has succeeded.
advanceBranchIgnoringSuccess(delta) ==
    IF delta = 0 THEN "return"
    ELSE IF isFirstStep /\ delta < 0 THEN "navigate"
    ELSE IF isLastStep /\ delta > 0 THEN "navigate"
    ELSE IF /\ currentPage = NumPages - 2
            /\ canProgress
            /\ delta > 0
         THEN "attemptRegistration"
    ELSE "setCurrentPage"

\* advanceBranch moving on from the second-to-last page without registering.
advanceBranchNeverRegistering(delta) ==
    IF delta = 0 THEN "return"
    ELSE IF isFirstStep /\ delta < 0 THEN "navigate"
    ELSE IF isLastStep /\ delta > 0 THEN "navigate"
    ELSE "setCurrentPage"

\* The branch of advancePage a call with delta takes.
advanceBranch(delta) ==
    IF delta = 0 THEN "return"
    ELSE IF isFirstStep /\ delta < 0 THEN "navigate"
    ELSE IF isLastStep /\ delta > 0 THEN "navigate"
    ELSE IF /\ currentPage = NumPages - 2
            /\ ~registrationSuccess
            /\ canProgress
            /\ delta > 0
         THEN "attemptRegistration"
    ELSE "setCurrentPage"

advancePage(delta) ==
    LET branch == advanceBranch(delta) IN
    /\ currentPage' = IF branch = "setCurrentPage" THEN currentPage + delta
                      ELSE currentPage
    /\ route' = IF branch = "navigate" THEN "Login" ELSE route
    /\ IF branch = "attemptRegistration"
       THEN attemptRegistration
       ELSE UNCHANGED <<hasAcknowledgedError, registrationTransit, regInFlight>>

\* The record of a call advancePage(delta), with the registration request it sent.
Advanced(delta) ==
    [Called(delta) EXCEPT
        !.regWas = transitName(registrationTransit),
        !.request = IF advanceBranch(delta) = "attemptRegistration"
                    THEN Some(registrationRequest)
                    ELSE null]

\* backBranch without the exit from the last step.
backBranchStaysOnLast ==
    IF isFirstStep THEN "navigate"
    ELSE IF canGoBackProgress THEN "advancePage"
    ELSE "none"

\* The branch of backLogic taken.
backBranch ==
    IF isFirstStep THEN "navigate"
    ELSE IF canGoBackProgress THEN "advancePage"
    ELSE IF isLastStep THEN "navigate"
    ELSE "none"

backLogic ==
    IF backBranch = "advancePage"
    THEN advancePage(-1)
    ELSE /\ route' = IF backBranch = "navigate" THEN "Login" ELSE route
         /\ UNCHANGED <<currentPage, hasAcknowledgedError, registrationTransit,
                        regInFlight>>

\* What an event that goes through advancePage or backLogic leaves alone.
pagerFrame ==
    UNCHANGED <<eula, customDetails, mounted, routeParams, form, accountAlreadyExists,
                validationTransit, valInFlight, valCalls, valRequest, reported,
                storeAtMount>>

\* ------------------------------------------------------------- lifecycle
\* What the store's validation transit can hold when the screen is shown: its
\* initial value, or the outcome of a request that outlived an earlier dismissal.
StoreAtMount ==
    {initialTransitState, transitSucceeded}
        \cup {transitFailed(msg) : msg \in ErrorMessages}

\* The screen as constructed: the useState defaults, the route parameters, and the
\* mount effects run (the validation effect, the registration-success effect).
Constructed ==
    /\ routeParams \in RouteParams
    /\ storeAtMount \in StoreAtMount
    /\ mounted = TRUE
    /\ route = "Pager"
    /\ eulaAccepted = FALSE
    /\ password = ""
    /\ firstNameInput = ""
    /\ lastNameInput = ""
    /\ accountDetails = null
    /\ customAccountDetails = <<>>
    /\ eulaContent = Undefined
    /\ eulaInFlight = 0
    /\ loadEULACalls = 0
    /\ accountAlreadyExists = FALSE
    /\ registrationTransit = initialTransitState
    /\ currentPage = successEffect(0, registrationSuccess)
    /\ LET r == effectResult(storeAtMount, 0, routeParams, 0, FALSE, null) IN
           /\ valRequest = r.request
           /\ validationTransit = r.transit
           /\ valInFlight = r.inflight
           /\ valCalls = r.calls
           /\ hasAcknowledgedError = r.ack
    /\ regInFlight = 0
    /\ reported = FALSE
    /\ last = Other

\* The invitation link a pager that finds the outcome of an earlier request in the
\* store was opened from.
reopenedLink == [code |-> "ABC", email |-> Undefined]

\* The screen constructed with one of the injected lists the pager is run with, on a
\* fresh store from any link or on a stale one from reopenedLink.
Init ==
    /\ customDetails \in CustomDetailLists
    /\ Constructed
    /\ storeAtMount = initialTransitState \/ routeParams = reopenedLink

\* resetOnDismissal dispatching registerUserReset alone.
resetRegistrationOnly ==
    /\ registrationTransit' = initialTransitState
    /\ UNCHANGED validationTransit

\* The cleanup of the mount effect: registerUserReset and
\* validateUserRegistrationReset are dispatched.
resetOnDismissal ==
    /\ registrationTransit' = initialTransitState
    /\ validationTransit' = initialTransitState

\* Unmount with the cleanup cancelling the requests in flight.
UnmountCancelling ==
    /\ mounted
    /\ route = "Login"
    /\ mounted' = FALSE
    /\ resetOnDismissal
    /\ hasAcknowledgedError' = FALSE
    /\ eulaAccepted' = FALSE
    /\ password' = ""
    /\ firstNameInput' = ""
    /\ lastNameInput' = ""
    /\ accountDetails' = null
    /\ customAccountDetails' = <<>>
    /\ eulaContent' = Undefined
    /\ currentPage' = 0
    /\ accountAlreadyExists' = FALSE
    /\ valInFlight' = 0
    /\ regInFlight' = 0
    /\ UNCHANGED <<customDetails, route, routeParams, valCalls, valRequest, reported,
                   storeAtMount, eulaInFlight, loadEULACalls>>
    /\ last' = Did("unmount")

\* The screen is dismissed: the cleanup runs, the component's state is gone, its
\* requests stay in flight.
Unmount ==
    /\ mounted
    /\ route = "Login"
    /\ mounted' = FALSE
    /\ resetOnDismissal
    /\ hasAcknowledgedError' = FALSE
    /\ eulaAccepted' = FALSE
    /\ password' = ""
    /\ firstNameInput' = ""
    /\ lastNameInput' = ""
    /\ accountDetails' = null
    /\ customAccountDetails' = <<>>
    /\ eulaContent' = Undefined
    /\ currentPage' = 0
    /\ accountAlreadyExists' = FALSE
    /\ UNCHANGED <<customDetails, route, routeParams, valInFlight, regInFlight,
                   valCalls, valRequest, reported, storeAtMount, eulaInFlight,
                   loadEULACalls>>
    /\ last' = Did("unmount")

\* ------------------------------------------------------------- navigation events
\* The Next button never disabled.
nextEnabledAlways == ~isLastStep

\* The Next button is rendered on every page but the last, enabled while canProgress():
\* a request in flight does not disable it.
nextEnabled == ~isLastStep /\ canProgress

PressNext ==
    /\ shown /\ View = "wizard"
    /\ nextEnabled
    /\ advancePage(1)
    /\ pagerFrame
    /\ last' = Advanced(1)

PressBack ==
    /\ shown /\ View = "wizard"
    /\ ~isLastStep
    /\ canGoBackProgress
    /\ advancePage(-1)
    /\ pagerFrame
    /\ last' = Advanced(-1)

PressContinue ==
    /\ shown /\ View = "wizard"
    /\ isLastStep
    /\ advancePage(1)
    /\ pagerFrame
    /\ last' = Advanced(1)

\* onSubmit of the custom page shown, set only while its recorded valid flag holds.
CustomSubmit ==
    /\ shown /\ View = "wizard"
    /\ currentCustomKey \in DOMAIN customAccountDetails
    /\ customAccountDetails[currentCustomKey].valid
    /\ advancePage(1)
    /\ pagerFrame
    /\ last' = Advanced(1)

\* What onBackPress returns to the BackHandler: the press is consumed.
onBackPress == TRUE

\* The hardwareBackPress listener, registered whatever the view: it runs backLogic
\* and returns onBackPress.
HardwareBack ==
    /\ shown
    /\ backLogic
    /\ pagerFrame
    /\ last' = [(IF backBranch = "advancePage" THEN Advanced(-1) ELSE Did("backLogic"))
                   EXCEPT !.back = TRUE, !.consumed = onBackPress]

\* navigation.navigate('Login') from a header or a full-screen view.
navigateLogin ==
    /\ route' = "Login"
    /\ UNCHANGED <<currentPage, hasAcknowledgedError, registrationTransit, regInFlight>>
    /\ pagerFrame
    /\ last' = Other

CloseHeaderBack == shown /\ navigateLogin
ExistingAccountContinue == shown /\ View = "existing" /\ navigateLogin
ErrorStatePress == shown /\ View = "error" /\ navigateLogin

\* A call of advancePage with an arbitrary delta, from any state of the screen.
AdvancePageCall ==
    \E delta \in (-MaxDelta)..MaxDelta :
        /\ shown
        /\ advancePage(delta)
        /\ pagerFrame
        /\ last' = Advanced(delta)

\* The default of advancePage's parameter.
defaultDelta == 0

\* A call of attemptRegistration, from any state of the screen.
AttemptRegistrationCall ==
    /\ shown
    /\ attemptRegistration
    /\ UNCHANGED <<currentPage, route>>
    /\ pagerFrame
    /\ last' = [Did("attemptRegistration") EXCEPT !.request = Some(registrationRequest)]

\* A call advancePage() that passes no delta.
AdvancePageDefaultCall ==
    /\ shown
    /\ advancePage(defaultDelta)
    /\ pagerFrame
    /\ last' = Advanced(defaultDelta)

\* ------------------------------------------------------------- form events
\* What an edit of the form leaves alone.
editFrame ==
    UNCHANGED <<eula, customDetails, mounted, route, routeParams, hasAcknowledgedError,
                currentPage, accountAlreadyExists, registrationTransit,
                validationTransit, valInFlight, regInFlight, valCalls, valRequest,
                reported, storeAtMount>>

onEulaChanged ==
    \E accepted \in BOOLEAN :
        /\ shown /\ View = "wizard"
        /\ currentPage = 0
        /\ eulaAccepted' = accepted
        /\ UNCHANGED <<password, firstNameInput, lastNameInput, accountDetails,
                       customAccountDetails>>
        /\ editFrame
        /\ last' = Other

onPasswordChanged ==
    \E pw \in Passwords :
        /\ shown /\ View = "wizard"
        /\ currentPage = 1
        /\ password' = pw
        /\ UNCHANGED <<eulaAccepted, firstNameInput, lastNameInput, accountDetails,
                       customAccountDetails>>
        /\ editFrame
        /\ last' = Other

\* AccountDetails useEffect[firstNameInput, lastNameInput]: what it reports.
\* detailsReported asking for one of the two names only.
detailsReportedEither(first, lastName) ==
    IF Len(first) > 0 \/ Len(lastName) > 0
    THEN Some([firstName |-> first, lastName |-> lastName])
    ELSE null

detailsReported(first, lastName) ==
    IF Len(first) > 0 /\ Len(lastName) > 0
    THEN Some([firstName |-> first, lastName |-> lastName])
    ELSE null

onChangeFirstName ==
    \E text \in Names :
        /\ shown /\ View = "wizard"
        /\ currentPage = 2
        /\ firstNameInput' = text
        /\ accountDetails' = detailsReported(text, lastNameInput)
        /\ UNCHANGED <<eulaAccepted, password, lastNameInput, customAccountDetails>>
        /\ editFrame
        /\ last' = Other

onChangeLastName ==
    \E text \in Names :
        /\ shown /\ View = "wizard"
        /\ currentPage = 2
        /\ lastNameInput' = text
        /\ accountDetails' = detailsReported(firstNameInput, text)
        /\ UNCHANGED <<eulaAccepted, password, firstNameInput, customAccountDetails>>
        /\ editFrame
        /\ last' = Other

\* { ...customAccountDetails, [key]: { values, valid } }
withCustom(details, key, entry) ==
    [k \in DOMAIN details \cup {key} |-> IF k = key THEN entry ELSE details[k]]

onCustomDetailsChanged ==
    \E values \in CustomValues, valid \in BOOLEAN :
        /\ shown /\ View = "wizard"
        /\ currentCustomKey > 0
        /\ customAccountDetails' =
               withCustom(customAccountDetails, currentCustomKey,
                          [values |-> values, valid |-> valid])
        /\ UNCHANGED <<eulaAccepted, password, firstNameInput, lastNameInput,
                       accountDetails>>
        /\ editFrame
        /\ last' = Other

\* A custom page reports a field named as a core detail is, with no text in it.
onCustomNameChanged ==
    \E values \in CustomNameValues :
        /\ shown /\ View = "wizard"
        /\ currentCustomKey > 0
        /\ customAccountDetails' =
               withCustom(customAccountDetails, currentCustomKey,
                          [values |-> values, valid |-> TRUE])
        /\ UNCHANGED <<eulaAccepted, password, firstNameInput, lastNameInput,
                       accountDetails>>
        /\ editFrame
        /\ last' = Other

\* errorDialogVisible without the test of the acknowledgement.
errorDialogIgnoringAcknowledgement == hasRegistrationTransitError

errorDialogVisible == hasRegistrationTransitError /\ ~hasAcknowledgedError

DismissError ==
    /\ shown /\ View = "wizard"
    /\ errorDialogVisible
    /\ hasAcknowledgedError' = TRUE
    /\ UNCHANGED <<eula, customDetails, mounted, route, routeParams, form, currentPage,
                   accountAlreadyExists, registrationTransit, validationTransit,
                   valInFlight, regInFlight, valCalls, valRequest, reported,
                   storeAtMount>>
    /\ last' = Did("dismissError")

\* ------------------------------------------------------------- request completions
\* The pager is there to resume an awaiting callback or to run an effect.
listening == mounted /\ ~crashed

\* validateUserRegistrationRequest resolves with registrationComplete = exists: the
\* store reports success and validateCode, if its pager is still mounted, resumes.
ValidationResolved ==
    \E exists \in BOOLEAN :
        /\ valInFlight > 0
        /\ accountAlreadyExists' =
               IF listening /\ exists THEN TRUE ELSE accountAlreadyExists
        /\ reported' = IF listening /\ exists THEN TRUE ELSE reported
        /\ validationEffect(transitSucceeded, valInFlight - 1)
        /\ UNCHANGED <<eula, customDetails, mounted, route, routeParams, form, currentPage,
                       registrationTransit, regInFlight, storeAtMount>>
        /\ last' = IF listening
                   THEN [Did("validationResolved") EXCEPT !.exists = exists]
                   ELSE Other

\* validateUserRegistrationRequest rejects; validateCode swallows the error.
ValidationRejected ==
    \E msg \in ErrorMessages :
        /\ valInFlight > 0
        /\ validationEffect(transitFailed(msg), valInFlight - 1)
        /\ UNCHANGED <<eula, customDetails, mounted, route, routeParams, form, currentPage,
                       accountAlreadyExists, reported, registrationTransit,
                       regInFlight, storeAtMount>>
        /\ last' = Other

\* completeRegistration resolves: the store reports success and, when that changes
\* registrationSuccess under a mounted pager, its effect runs.
RegistrationResolved ==
    /\ regInFlight > 0
    /\ regInFlight' = regInFlight - 1
    /\ registrationTransit' = transitSucceeded
    /\ currentPage' = IF listening /\ ~registrationSuccess
                      THEN successEffect(currentPage, TRUE)
                      ELSE currentPage
    /\ UNCHANGED <<eula, customDetails, mounted, route, routeParams, hasAcknowledgedError,
                   form, accountAlreadyExists, validationTransit, valInFlight,
                   valCalls, valRequest, reported, storeAtMount>>
    /\ last' = IF listening THEN Did("registrationResolved") ELSE Other

\* RegistrationRejected with the catch block issuing the request again.
RegistrationRejectedRetrying ==
    \E msg \in ErrorMessages :
        /\ regInFlight > 0
        /\ regInFlight' = IF listening THEN regInFlight ELSE regInFlight - 1
        /\ registrationTransit' = IF listening THEN transitStart ELSE transitFailed(msg)
        /\ currentPage' = IF listening /\ registrationSuccess
                          THEN successEffect(currentPage, FALSE)
                          ELSE currentPage
        /\ UNCHANGED <<eula, customDetails, mounted, route, routeParams,
                       hasAcknowledgedError, form, accountAlreadyExists,
                       validationTransit, valInFlight, valCalls, valRequest,
                       reported, storeAtMount>>
        /\ last' = IF listening THEN Did("registrationRejected") ELSE Other

\* completeRegistration rejects; attemptRegistration swallows the error.
RegistrationRejected ==
    \E msg \in ErrorMessages :
        /\ regInFlight > 0
        /\ regInFlight' = regInFlight - 1
        /\ registrationTransit' = transitFailed(msg)
        /\ currentPage' = IF listening /\ registrationSuccess
                          THEN successEffect(currentPage, FALSE)
                          ELSE currentPage
        /\ UNCHANGED <<eula, customDetails, mounted, route, routeParams,
                       hasAcknowledgedError, form, accountAlreadyExists,
                       validationTransit, valInFlight, valCalls, valRequest,
                       reported, storeAtMount>>
        /\ last' = IF listening THEN Did("registrationRejected") ELSE Other

\* ------------------------------------------------------------- EULA text
\* The record of an operation on the EULA cache and the state it started from.
DidEula(op) ==
    [Other EXCEPT !.op = op, !.eulaWas = eulaContent, !.fetches = loadEULACalls,
                  !.flying = eulaInFlight]

\* A call fetches unless a fetch was already made or is in flight.
shouldLoadEulaOnce ==
    eulaContent \in {Undefined, ""} /\ loadEULACalls = 0 /\ eulaInFlight = 0

\* !eulaContent: the cache holds no text, or the empty string.
shouldLoadEula == eulaContent \in {Undefined, ""}

\* loadAndCacheEula up to its await: loadEULA is called when the cache is empty.
loadAndCacheEula ==
    /\ eulaInFlight' = IF shouldLoadEula THEN eulaInFlight + 1 ELSE eulaInFlight
    /\ loadEULACalls' = IF shouldLoadEula THEN loadEULACalls + 1 ELSE loadEULACalls
    /\ UNCHANGED eulaContent

eulaFrame ==
    UNCHANGED <<customDetails, mounted, route, routeParams, local, registrationTransit,
                validationTransit, valInFlight, regInFlight, valCalls, valRequest,
                reported, storeAtMount>>

\* The Eula page, rendered with every other page of the wizard, calls its loadEula
\* prop.
LoadAndCacheEulaCall ==
    /\ shown /\ View = "wizard"
    /\ shouldLoadEula => loadEULACalls < MaxEulaFetches
    /\ loadAndCacheEula
    /\ eulaFrame
    /\ last' = DidEula("loadAndCacheEula")

\* loadEULA resolves with the text: loadAndCacheEula resumes with setEulaContent,
\* which a dismissed pager no longer takes.
LoadEULAResolved ==
    \E eulaText \in EulaTexts :
        /\ eulaInFlight > 0
        /\ eulaInFlight' = eulaInFlight - 1
        /\ eulaContent' = IF mounted THEN eulaText ELSE eulaContent
        /\ UNCHANGED loadEULACalls
        /\ eulaFrame
        /\ last' = [DidEula("loadEULAResolved") EXCEPT !.text = eulaText]

\* loadEULA rejects: the catch block of loadAndCacheEula does nothing.
LoadEULARejected ==
    /\ eulaInFlight > 0
    /\ eulaInFlight' = eulaInFlight - 1
    /\ UNCHANGED <<eulaContent, loadEULACalls>>
    /\ eulaFrame
    /\ last' = DidEula("loadEULARejected")

\* ------------------------------------------------------------- specifications
\* The events the screen offers.
Next ==
    \/ Unmount
    \/ PressNext
    \/ PressBack
    \/ PressContinue
    \/ CustomSubmit
    \/ HardwareBack
    \/ CloseHeaderBack
    \/ ExistingAccountContinue
    \/ ErrorStatePress
    \/ onEulaChanged
    \/ onPasswordChanged
    \/ onChangeFirstName
    \/ onChangeLastName
    \/ onCustomDetailsChanged
    \/ DismissError
    \/ ValidationResolved
    \/ ValidationRejected
    \/ RegistrationResolved
    \/ RegistrationRejected

Spec == Init /\ [][Next]_vars

\* The pager opened from one invitation link on a fresh store, with advancePage
\* also called directly with every delta.
\* The injected lists direct calls are made with: no custom page, and one.
CallLists == {<<>>, <<"form", "null", "form">>}

InitCalls ==
    /\ customDetails \in CallLists
    /\ Constructed
    /\ routeParams = [code |-> "ABC", email |-> Undefined]
    /\ storeAtMount = initialTransitState

NextCalls == Next \/ AdvancePageCall \/ AdvancePageDefaultCall

SpecCalls == InitCalls /\ [][NextCalls]_vars

\* The page list built from every injected list: the pager opened from one
\* invitation link on a fresh store and walked by direct calls of advancePage.
InitPages ==
    /\ customDetails \in InjectedLists
    /\ Constructed
    /\ routeParams = [code |-> "ABC", email |-> Undefined]
    /\ storeAtMount = initialTransitState

NextPages == AdvancePageCall \/ RegistrationResolved \/ RegistrationRejected

SpecPages == InitPages /\ [][NextPages]_vars

\* The EULA cache: the wizard opened after a successful validation, its Eula page
\* calling loadAndCacheEula at any time, each loadEULA request resolving or rejecting
\* at any later time, while the form is edited and the wizard walked.
InitEula ==
    /\ customDetails = <<>>
    /\ Constructed
    /\ routeParams = [code |-> "ABC", email |-> Undefined]
    /\ storeAtMount = initialTransitState

NextEula ==
    \/ LoadAndCacheEulaCall
    \/ LoadEULAResolved
    \/ LoadEULARejected
    \/ ValidationResolved
    \/ onEulaChanged
    \/ PressNext
    \/ PressBack

SpecEula == InitEula /\ [][NextEula]_vars

\* The wizard with one custom page, opened from one invitation link on a fresh store:
\* every event the screen offers, the custom page also reporting a core field.
InitGates ==
    /\ customDetails = <<"form", "null", "form">>
    /\ Constructed
    /\ routeParams = [code |-> "ABC", email |-> Undefined]
    /\ storeAtMount = initialTransitState

NextGates == Next \/ onCustomNameChanged

SpecGates == InitGates /\ [][NextGates]_vars

\* The registration request built from every form state: the pager after a successful
\* validation, on its last custom page, its form holding any password, any names and
\* any record of custom details, with attemptRegistration also called directly.
InitRequest ==
    /\ customDetails = <<"form", "null">> \o [i \in 1..MaxRequestPages |-> "form"]
    /\ routeParams = [code |-> "ABC", email |-> Undefined]
    /\ storeAtMount = initialTransitState
    /\ mounted = TRUE
    /\ route = "Pager"
    /\ hasAcknowledgedError = FALSE
    /\ eulaAccepted = TRUE
    /\ password \in Passwords
    /\ firstNameInput \in Names
    /\ lastNameInput \in Names
    /\ accountDetails = detailsReported(firstNameInput, lastNameInput)
    /\ customAccountDetails \in RequestDetails
    /\ eulaContent = Undefined
    /\ eulaInFlight = 0
    /\ loadEULACalls = 0
    /\ currentPage = NumPages - 2
    /\ accountAlreadyExists = FALSE
    /\ registrationTransit = initialTransitState
    /\ validationTransit = transitSucceeded
    /\ valInFlight = 0
    /\ regInFlight = 0
    /\ valCalls = 1
    /\ valRequest = Some(validationRequest(routeParams))
    /\ reported = FALSE
    /\ last = Other

NextRequest == AttemptRegistrationCall \/ PressNext

SpecRequest == InitRequest /\ [][NextRequest]_vars

\* ------------------------------------------------------------- properties
\* The last operation was a call advancePage(delta) for some delta.
advanced == last.op = "advancePage"

\* No request was started by the last call of advancePage.
noRequestStarted == regInFlight = last.reg /\ valInFlight = last.val

\* C1: advancePage(0), and advancePage() with the default delta, leaves currentPage
\* unchanged, does not navigate to Login and starts no registration request,
\* whatever the page, the form and the transit state.
C1_ZeroDeltaIsNoOp ==
    advanced /\ last.delta = 0
        => currentPage = last.page /\ route = "Pager" /\ noRequestStarted

\* C1 happens: a zero delta on the second-to-last page with the form complete, where
\* a positive delta would have submitted the registration.
C1_Witness ==
    /\ advanced /\ last.delta = 0
    /\ last.page = NumPages - 2 /\ last.can /\ ~last.succ
    /\ currentPage = last.page

\* C2: on page 0, advancePage(delta) with any delta < 0 navigates to Login, and
\* neither changes currentPage nor starts a request.
C2_BackFromFirstExits ==
    advanced /\ last.page = 0 /\ last.delta < 0
        => route = "Login" /\ currentPage = 0 /\ noRequestStarted

\* C2 happens: a step back of more than one page from page 0 left the wizard.
C2_Witness ==
    advanced /\ last.page = 0 /\ last.delta < -1 /\ route = "Login"

\* C3: on the last (Complete) page, advancePage(delta) with any delta > 0 navigates
\* to Login, and neither changes currentPage nor starts a registration request.
C3_ForwardFromLastExits ==
    advanced /\ last.page = CompletePage /\ last.delta > 0
        => route = "Login" /\ currentPage = CompletePage /\ noRequestStarted

\* C3 happens: a step forward of more than one page from the Complete page left the
\* wizard.
C3_Witness ==
    advanced /\ last.page = CompletePage /\ last.delta > 1 /\ route = "Login"

\* C4: on the second-to-last page, with canGoForward true and registration not yet
\* succeeded, one call advancePage(delta > 0) starts exactly one registration
\* request and leaves currentPage unchanged.
C4_SecondToLastRegisters ==
    advanced /\ last.page = NumPages - 2 /\ last.can /\ ~last.succ /\ last.delta > 0
        => /\ regInFlight = last.reg + 1
           /\ valInFlight = last.val
           /\ currentPage = last.page
           /\ route = "Pager"

\* C4 happens: the call was made while an earlier registration request was still
\* outstanding, and one more is outstanding after it.
C4_Witness ==
    /\ advanced /\ last.page = NumPages - 2 /\ last.can /\ ~last.succ
    /\ last.delta > 0 /\ last.reg = 1 /\ regInFlight = 2

\* The last operation was the store reporting registration success to a mounted
\* pager whose registrationSuccess was false until then.
successObserved == last.op = "registrationResolved" /\ ~last.succ

\* C5, as stated: whenever registration success is observed, currentPage becomes the
\* last index, whatever page the wizard was on.
C5_Original == successObserved => currentPage = CompletePage

\* C5, amended: when registration success is observed while currentPage is the
\* second-to-last index, currentPage becomes the last index; observed on any other
\* page, it leaves currentPage unchanged.
C5_SuccessJumpsFromSecondToLast ==
    successObserved
        => currentPage = IF last.page = NumPages - 2 THEN CompletePage ELSE last.page

\* C5 happens: success was observed on the second-to-last page and the pager is on
\* the Complete page.
C5_Witness ==
    successObserved /\ last.page = NumPages - 2 /\ currentPage = CompletePage

\* C6: in every state reached through the wizard's events, 0 <= currentPage < number
\* of pages.
C6_PageIndexValid == currentPage \in 0..(NumPages - 1)

\* C6 happens: the registration-success jump has put a pager with a custom page on
\* its last index.
C6_Witness ==
    /\ mounted /\ NumPages > 4 /\ currentPage = NumPages - 1
    /\ last.op = "registrationResolved"

\* The validation transit the mount effect found was neither in flight nor complete.
idleAtMount == ~storeAtMount.transitInProgress /\ ~storeAtMount.transitComplete

\* C7, as stated: the mount makes exactly one validation call when it finds the
\* validation neither in flight nor complete (and none otherwise), and never another.
C7_Original == valCalls = IF idleAtMount THEN 1 ELSE 0

\* C7, amended: the mount makes exactly one validation call when it finds the
\* validation neither in flight nor complete and the code is not the empty string,
\* and none otherwise; it never makes another, in flight or after completion.
C7_ValidatedOnce ==
    valCalls = IF idleAtMount /\ Len(validationCode) > 0 THEN 1 ELSE 0

\* C7 happens: the one request has completed, the effect has run on the completed
\* transit, and the pager is still mounted.
C7_Witness ==
    mounted /\ valCalls = 1 /\ valInFlight = 0 /\ validationComplete

\* C8: when the wizard unmounts, the registration transit and the validation transit
\* are both reset to their initial values, whatever state they were in.
C8_UnmountResetsTransits ==
    last.op = "unmount"
        => /\ registrationTransit = initialTransitState
           /\ validationTransit = initialTransitState

\* C8 happens: the wizard unmounted with a registration request in flight and the
\* validation succeeded.
C8_Witness ==
    /\ last.op = "unmount" /\ ~mounted
    /\ last.regWas = "inProgress" /\ last.valWas = "succeeded"

viewByPriority ==
    IF accountAlreadyExists THEN "existing"
    ELSE IF validationSuccess /\ ~isValidationInTransit THEN "wizard"
    ELSE IF ~validationComplete THEN "loading"
    ELSE "error"

bothNames == Len(firstNameInput) > 0 /\ Len(lastNameInput) > 0

\* C11: on the AccountDetails page canGoForward is true if and only if firstName and
\* lastName are both non-empty; while either is empty (or nothing was entered yet) the
\* details reported to the pager are null, canGoForward is false and the Next button
\* is disabled.
C11_DetailsGate ==
    mounted
        => /\ RegistrationPages[3].canGoForward <=> bothNames
           /\ ~bothNames => accountDetails = null
           /\ currentPage = 2 /\ ~bothNames => ~canProgress /\ ~nextEnabled
           /\ bothNames
                  => accountDetails = Some([firstName |-> firstNameInput,
                                            lastName |-> lastNameInput])

\* C11 happens: on the AccountDetails page the first name is entered, the last name
\* is not, and the Next button is disabled.
C11_Witness ==
    /\ shown /\ View = "wizard" /\ currentPage = 2
    /\ Len(firstNameInput) > 0 /\ lastNameInput = ""
    /\ accountDetails = null /\ ~nextEnabled

\* The pager was opened on a store whose validation was idle, with no email.
openedWithoutEmail == idleAtMount /\ routeParams.email = Undefined

\* The code validateCode is expected to send for the route's code: the code itself, or
\* the sentinel when the route supplies none.
expectedCode ==
    IF routeParams.code = Undefined THEN "NoCodeEntered" ELSE routeParams.code

\* The mount's validation succeeded with accountExists = false under the pager.
validatedAsNew == last.op = "validationResolved" /\ ~last.exists

\* C12, as stated: on mount with entry code c and no email, validation is requested
\* with (c, undefined), the sentinel 'NoCodeEntered' standing for a missing code; when
\* it succeeds with accountExists = false the wizard is rendered on page 0, Eula.
C12_Original ==
    openedWithoutEmail
        => /\ valRequest = Some([code |-> expectedCode, email |-> Undefined])
           /\ validatedAsNew
                  => /\ View = "wizard" /\ currentPage = 0
                     /\ RegistrationPages[currentPage + 1].name = "Eula"

\* C12, amended: the request is made with (c, undefined) for a non-empty code c and
\* with the sentinel for a missing one, and no request is made for the empty code;
\* when the request succeeds with accountExists = false the wizard is rendered on
\* page 0, Eula.
C12_ValidatesAndOpensWizard ==
    openedWithoutEmail
        => /\ valRequest = IF routeParams.code = "" THEN null
                           ELSE Some([code |-> expectedCode, email |-> Undefined])
           /\ validatedAsNew
                  => /\ View = "wizard" /\ currentPage = 0
                     /\ RegistrationPages[currentPage + 1].name = "Eula"

\* C12 happens: opened with no code at all, the request carried the sentinel, it
\* succeeded for a new account and the wizard is on the Eula page.
C12_Witness ==
    /\ openedWithoutEmail /\ routeParams.code = Undefined
    /\ valRequest = Some([code |-> "NoCodeEntered", email |-> Undefined])
    /\ validatedAsNew /\ View = "wizard" /\ currentPage = 0

\* A slot of the injected list that holds a form.
isForm(slot) == slot # "null"

\* The page list is the three fixed pages, one page CustomPage1.. for each form of
\* forms in order, and the Complete page.
pagesAre(forms) ==
    /\ NumPages = 4 + Len(forms)
    /\ RegistrationPages[1].name = "Eula"
    /\ RegistrationPages[2].name = "CreatePassword"
    /\ RegistrationPages[3].name = "AccountDetails"
    /\ \A i \in 1..Len(forms) :
           /\ 3 + i \in DOMAIN RegistrationPages
           /\ RegistrationPages[3 + i].name = "CustomPage" \o ToString(i)
           /\ RegistrationPages[3 + i].pageBody = forms[i]
    /\ RegistrationPages[NumPages].name = "Complete"

\* C13, as stated: for every injected list the page list is Eula, CreatePassword,
\* AccountDetails, one page for each injected form in order, and Complete, of length 4
\* plus the number of injected forms.
C13_Original == pagesAre(SelectSeq(customDetails, isForm))

\* C13, amended: the custom pages are the forms of the injected list after its first
\* slot, in order; the first page is Eula, the last is Complete, and the length is 4
\* plus the number of forms after the first slot.
C13_PageSequence ==
    pagesAre(SelectSeq(IF customDetails = <<>> THEN <<>> ELSE Tail(customDetails), isForm))

\* C13 happens: a list of two forms around a null gives one custom page, showing the
\* second form, and the pager has been walked to the Complete page after it.
C13_Witness ==
    /\ customDetails = <<"formA", "null", "formB">>
    /\ NumPages = 5 /\ RegistrationPages[4].pageBody = "formB"
    /\ mounted /\ currentPage = CompletePage

\* A custom injected page is the one shown.
onCustomPage == shown /\ View = "wizard" /\ currentCustomKey > 0

\* C14: on every custom injected page canGoForward is true whatever validity the page
\* last reported, so the Next button is enabled; on a custom page that is the
\* second-to-last page, pressing Next before registration has succeeded submits the
\* registration, its recorded valid flag false or not.
C14_CustomPageNeverGated ==
    /\ onCustomPage => canProgress /\ nextEnabled
    /\ advanced /\ last.delta = 1 /\ last.page >= 3 /\ last.page = NumPages - 2
           /\ ~last.succ
           => regInFlight = last.reg + 1 /\ currentPage = last.page

\* C14 happens: Next was pressed on the second-to-last page, a custom page whose
\* recorded valid flag is false, and a registration request started.
C14_Witness ==
    /\ onCustomPage /\ currentPage = NumPages - 2
    /\ currentCustomKey \in DOMAIN customAccountDetails
    /\ ~customAccountDetails[currentCustomKey].valid
    /\ advanced /\ last.delta = 1 /\ last.page = currentPage
    /\ regInFlight = last.reg + 1

\* The last call of advancePage started a registration request.
requestStarted == advanced /\ regInFlight = last.reg + 1

coreDetails ==
    IF accountDetails = null THEN [firstName |-> "", lastName |-> ""]
    ELSE accountDetails[1]

\* The custom pages whose recorded values hold the field k.
pagesWith(k) ==
    {i \in DOMAIN customAccountDetails : k \in DOMAIN customAccountDetails[i].values}

\* The union of the core details and of every custom page's values: a field's value
\* is that of the highest page key holding it, and the core value if no page holds it.
unionOfDetails ==
    [k \in DOMAIN coreDetails
            \cup UNION {DOMAIN customAccountDetails[i].values :
                           i \in DOMAIN customAccountDetails} |->
        IF pagesWith(k) # {}
        THEN LET top == CHOOSE i \in pagesWith(k) : \A j \in pagesWith(k) : j <= i
             IN customAccountDetails[top].values[k]
        ELSE coreDetails[k]]

registrationFailed == last.op = "registrationRejected"

\* The dialog is visible exactly when the registration transit has an error message
\* that has not been acknowledged; dismissing it hides it, and a registration attempt
\* clears the acknowledgement.
dialogFollowsAcknowledgement ==
    /\ errorDialogVisible
           <=> registrationTransit.transitErrorMessage # Null /\ ~hasAcknowledgedError
    /\ last.op = "dismissError" => hasAcknowledgedError /\ ~errorDialogVisible
    /\ requestStarted => ~hasAcknowledgedError /\ ~errorDialogVisible

\* C17, as stated: the dialog is visible exactly when the registration transit has an
\* unacknowledged error message; after a registration attempt fails it is visible,
\* dismissing it hides it, and it stays hidden until the next attempt clears the
\* acknowledgement.
C17_Original ==
    mounted => dialogFollowsAcknowledgement /\ (registrationFailed => errorDialogVisible)

\* C17, amended: as stated, but a failure makes the dialog visible only if no error
\* was acknowledged since the last attempt started; it does whenever the failure
\* arrives while the transit is still in progress.
C17_DialogVisibility ==
    mounted
        => /\ dialogFollowsAcknowledgement
           /\ registrationFailed
                  => /\ registrationTransit.transitErrorMessage # Null
                     /\ errorDialogVisible <=> ~hasAcknowledgedError
                     /\ last.regWas = "inProgress" => errorDialogVisible

\* C17 happens: the dialog of a failed registration was dismissed and is hidden, the
\* error message still in the store.
C17_Witness ==
    /\ shown /\ last.op = "dismissError"
    /\ registrationTransit.transitErrorMessage # Null /\ regInFlight = 0
    /\ hasAcknowledgedError /\ ~errorDialogVisible

\* C18: a failed registration request is not issued again by the pager: the failure
\* leaves currentPage where it was, on the second-to-last index if it was there, and
\* starts no request; Next pressed again on that page starts a new request.
C18_NoAutomaticRetry ==
    /\ registrationFailed
           => /\ currentPage = last.page
              /\ regInFlight = last.reg - 1
              /\ ~registrationIsInTransit
    /\ advanced /\ last.delta = 1 /\ last.page = NumPages - 2 /\ last.can
           /\ last.regWas = "failed"
           => regInFlight = last.reg + 1 /\ currentPage = last.page

\* C18 happens: after a failure on the second-to-last page, with no request left,
\* Next was pressed there again and a new request is in flight.
C18_Witness ==
    /\ advanced /\ last.delta = 1 /\ last.page = NumPages - 2
    /\ last.regWas = "failed" /\ last.reg = 0
    /\ regInFlight = 1 /\ registrationIsInTransit /\ currentPage = NumPages - 2

\* The last call of advancePage fell under none of the no-op, the two exits and the
\* registration case.
plainAdvance ==
    /\ advanced /\ last.delta # 0
    /\ ~(last.page = 0 /\ last.delta < 0)
    /\ ~(last.page = CompletePage /\ last.delta > 0)
    /\ ~(last.page = NumPages - 2 /\ ~last.succ /\ last.can /\ last.delta > 0)

\* C19: in every case not covered by the no-op, the two exits and the registration
\* case, advancePage(delta) sets currentPage to currentPage + delta, does not leave
\* the wizard and starts no request: a forward advance on the second-to-last page
\* with canGoForward false or registration succeeded, and any backward advance
\* from it, included.
C19_PlainAdvanceAddsDelta ==
    plainAdvance
        => currentPage = last.page + last.delta /\ route = "Pager" /\ noRequestStarted

\* C19 happens: a call advancePage(1) on the second-to-last page with canGoForward
\* false and registration not succeeded moved the pager to the Complete page.
C19_Witness ==
    /\ plainAdvance /\ last.delta = 1 /\ last.page = NumPages - 2
    /\ ~last.can /\ ~last.succ
    /\ currentPage = CompletePage /\ regInFlight = 0

\* C20: unmounting the wizard cancels no request: the validation and registration
\* requests in flight before the unmount are still in flight after its reset, so
\* their outcome is written to the shared transit state once it was reset.
C20_UnmountCancelsNothing ==
    last.op = "unmount" => regInFlight = last.reg /\ valInFlight = last.val

\* C20 happens: after the unmount and its reset, the registration request that was in
\* flight failed and its error is in the registration transit.
C20_Witness ==
    /\ ~mounted /\ regInFlight = 0
    /\ registrationTransit.transitComplete
    /\ registrationTransit.transitErrorMessage # Null

\* The last operation was a hardware back press.
backPressed == last.back

\* C21: a hardware back press is consumed and runs backLogic: on page 0 it exits, on
\* a page with canGoBack it decrements currentPage by exactly one, on the Complete
\* page (canGoBack false) it exits; it never increases currentPage and never starts
\* a registration request.
C21_HardwareBack ==
    backPressed
        => /\ last.consumed
           /\ last.page = 0 => route = "Login" /\ currentPage = 0
           /\ last.page > 0 /\ RegistrationPages[last.page + 1].canGoBack
                  => currentPage = last.page - 1 /\ route = "Pager"
           /\ last.page = CompletePage
                  => /\ ~RegistrationPages[last.page + 1].canGoBack
                     /\ route = "Login" /\ currentPage = last.page
           /\ currentPage <= last.page
           /\ regInFlight = last.reg

\* C21 happens: the hardware back press on the Complete page left the wizard, the
\* page index where it was.
C21_Witness ==
    /\ backPressed /\ last.page = CompletePage /\ registrationSuccess
    /\ route = "Login" /\ currentPage = CompletePage

\* The last operation was the call of loadAndCacheEula, a resolved or a rejected fetch.
eulaCalled == last.op = "loadAndCacheEula"
eulaResolved == last.op = "loadEULAResolved"
eulaRejected == last.op = "loadEULARejected"

\* The cache held no text to show when the last operation started.
cacheWasEmpty == last.eulaWas \in {Undefined, ""}

\* C22 as stated: loadEULA is invoked at most once, whatever calls are made.
C22_Original == loadEULACalls <= 1

\* C22: every call of loadAndCacheEula made while the cache holds no text (none yet,
\* or the empty string) invokes loadEULA once more, a fetch in flight or failed
\* notwithstanding; a call made once text is cached invokes nothing; a resolved fetch
\* stores its text, and a failed one is swallowed and leaves the cache as it was.
C22_FetchedWhileCacheEmpty ==
    /\ eulaCalled
           => /\ loadEULACalls = last.fetches + (IF cacheWasEmpty THEN 1 ELSE 0)
              /\ eulaInFlight = last.flying + (IF cacheWasEmpty THEN 1 ELSE 0)
              /\ eulaContent = last.eulaWas
    /\ eulaResolved
           => /\ eulaContent = last.text
              /\ loadEULACalls = last.fetches
    /\ eulaRejected
           => /\ eulaContent = last.eulaWas
              /\ loadEULACalls = last.fetches
              /\ shown /\ View = "wizard"

\* C22 happens: a second call made before the first fetch returned invoked loadEULA
\* again.
C22_Witness ==
    /\ eulaCalled /\ cacheWasEmpty /\ last.flying = 1 /\ last.fetches = 1
    /\ loadEULACalls = 2 /\ eulaInFlight = 2

\* The wizard shows its Complete page.
completeShown == shown /\ View = "wizard" /\ currentPage = CompletePage

\* C23 as stated: the Complete page is shown only while the registration transit
\* reports success.
C23_Original == completeShown => registrationSuccess

\* C23: currentPage becomes the last index only in a step that leaves the registration
\* transit successful, so the Complete page is never shown for a registration that
\* was not submitted or has not succeeded yet; while it is shown the transit reports
\* success, or the failure of a further request that was outstanding when the first
\* succeeded.
C23_CompleteEnteredOnSuccess ==
    /\ [][currentPage # CompletePage /\ currentPage' = CompletePage
              => registrationSuccess']_vars
    /\ [](completeShown
              => registrationSuccess \/ transitName(registrationTransit) = "failed")

\* C23 happens: on the Complete page, reached by the success of one request, a second
\* request failed and the transit reports its error.
C23_Witness ==
    /\ registrationFailed /\ last.page = CompletePage /\ last.succ
    /\ completeShown /\ ~registrationSuccess /\ hasRegistrationTransitError

\* The gates of the built-in pages before the current one hold.
earlierGatesHold ==
    /\ currentPage >= 1 => eulaAccepted
    /\ currentPage >= 2 => password # ""
    /\ currentPage >= 3 => accountDetails # null /\ bothNames

\* The last call of advancePage sent a registration request.
requestSent == advanced /\ last.request # null

\* The custom pages' values hold a field of that name.
customField(name) == name \in DOMAIN flattenedDetails

====
